---- MODULE Spec2Model ----
(***************************************************************************)
(* A model of the /proc/stat parser and the snapshot-difference code of    *)
(* linux_proc (src/src/proc.rs) and of the CpuInstant wrapper of           *)
(* cpu-monitor (src/src/lib.rs, src/src/imp/linux.rs).                     *)
(*                                                                         *)
(* u64 values are modelled with a word of WordBits bits instead of 64, so  *)
(* that the boundary values (u64::MAX, i64::MAX) stay inside the integers  *)
(* the model checker can compute with.  Every comparison against a         *)
(* boundary in the code is a comparison against the scaled boundary here.  *)
(***************************************************************************)
EXTENDS Integers, Sequences, FiniteSets, TLC

VARIABLES
    overflow_checks, \* build profile: TRUE = overflow checks on (debug), FALSE = wrapping (release)
    newer,           \* Stat differencing: the left operand (self), <<>> once moved
    older,           \* Stat differencing: the right operand (rhs), <<>> once moved
    form,            \* which impl produced sub_out: "none", "val" (Sub for Stat), "ref" (Sub<&Stat>)
    sub_in,          \* the operands the last subtraction was applied to
    sub_out,         \* outcome of the last subtraction
    input,           \* parse_u64: the &str handed to the tokenizer
    u64_out,         \* parse_u64: its outcome, <<>> before the call
    table,           \* from_iter: the items the line iterator yields, in order
    pos,             \* from_iter: number of items already taken from the iterator
    pc,              \* from_iter: the statement the parser is at
    st,              \* from_iter: the local variables bound so far
    result,          \* from_iter: its outcome, <<>> while running
    clock,           \* monotonic clock read by CpuInstant::now
    start,           \* example main: the retained CpuInstant
    end_,            \* example main: the CpuInstant just sampled
    duration         \* example main: the CpuDuration of the last subtraction

vars == <<overflow_checks, newer, older, form, sub_in, sub_out, input, u64_out,
          table, pos, pc, st, result, clock, start, end_, duration>>

subVars   == <<newer, older, form, sub_in, sub_out>>
u64Vars   == <<input, u64_out>>
parseVars == <<table, pos, pc, st, result>>
instVars  == <<clock, start, end_, duration>>

----------------------------------------------------------------------------
(* Bounds of the model *)

WordBits == 5     \* width of the scaled u64 word
MaxCores == 2     \* largest number of per-core entries of a Stat
MaxLen   == 4     \* longest input of the numeric tokenizer
MaxClock == 3     \* number of samples taken by the polling loop

U64Max == 2^WordBits - 1          \* u64::MAX, scaled
I64Max == 2^(WordBits - 1) - 1    \* ::std::i64::MAX, scaled
Modulus == 2^WordBits

None == <<>>
Some(v) == <<v>>
Unwrap(o) == o[1]

Min(a, b) == IF a <= b THEN a ELSE b

----------------------------------------------------------------------------
(* StatCpu: nine u64 counters (proc.rs 166-176) *)

Fields == <<"user", "nice", "system", "idle", "iowait", "irq", "softirq", "steal", "guest">>
FieldSet == {Fields[i] : i \in 1..9}

StatCpu(user, nice, system, idle, iowait, irq, softirq, steal, guest) ==
    [user |-> user, nice |-> nice, system |-> system, idle |-> idle, iowait |-> iowait,
     irq |-> irq, softirq |-> softirq, steal |-> steal, guest |-> guest]

\* u64::checked_sub: None when the difference would be negative
checked_sub(a, b) == IF a >= b THEN Some(a - b) ELSE None

\* u64::checked_add: None when the sum does not fit the word
checked_add(a, b) == IF a + b <= U64Max THEN Some(a + b) ELSE None

\* a slip: a decreased counter clamped to zero instead of a panic
StatCpu_sub_clamped(self, rhs) ==
    Some([f \in FieldSet |-> IF self[f] >= rhs[f] THEN self[f] - rhs[f] ELSE 0])

\* impl ops::Sub for StatCpu: None stands for the panic of an unwrap() on None
StatCpu_sub(self, rhs) ==
    LET d == [f \in FieldSet |-> checked_sub(self[f], rhs[f])]
    IN  IF \E f \in FieldSet : d[f] = None
        THEN None
        ELSE Some([f \in FieldSet |-> Unwrap(d[f])])

\* StatCpu::total: checked sum of the nine fields, None stands for the panic
RECURSIVE total_from(_, _, _)
total_from(self, i, acc) ==
    IF i > 9 THEN Some(acc)
    ELSE LET s == checked_add(acc, self[Fields[i]])
         IN  IF s = None THEN None ELSE total_from(self, i + 1, Unwrap(s))

total(self) == total_from(self, 2, self.user)

----------------------------------------------------------------------------
(* Stat - Stat and Stat - &Stat (proc.rs 30-94) *)

\* A panic; cpu_subs counts the per-core subtractions attempted before it
Panic(msg, n) == [kind |-> "Panic", msg |-> msg, cpu_subs |-> n]
Ok(v) == [kind |-> "Ok", val |-> v]

UnwrapNone == "unwrap on None"
Overflow == "overflow"
DifferentCpus == "different number of cpus"

\* u64 as i64: the two's complement reinterpretation
as_i64(x) == IF x > I64Max THEN x - Modulus ELSE x

\* i64::checked_sub
checked_sub_i64(a, b) ==
    IF a - b > I64Max \/ a - b < -I64Max - 1 THEN None ELSE Some(a - b)

\* a slip: the gauge subtracted like a cumulative counter
gauge_sub_unsigned(a, b) ==
    IF a > I64Max \/ b > I64Max THEN [kind |-> "Panic", msg |-> Overflow]
    ELSE IF checked_sub(a, b) = None
         THEN [kind |-> "Panic", msg |-> UnwrapNone]
         ELSE Ok(Unwrap(checked_sub(a, b)))

\* proc.rs 41-46 and 47-51: the difference of one gauge of Stat - Stat
gauge_sub(a, b) ==
    IF a > I64Max \/ b > I64Max THEN [kind |-> "Panic", msg |-> Overflow]
    ELSE IF checked_sub_i64(as_i64(a), as_i64(b)) = None
         THEN [kind |-> "Panic", msg |-> UnwrapNone]
         ELSE Ok(Unwrap(checked_sub_i64(as_i64(a), as_i64(b))))

\* proc.rs 74-79 and 80-84: the difference of one gauge of Stat - &Stat
gauge_sub_ref(a, b) ==
    IF a > I64Max \/ b > I64Max THEN [kind |-> "Panic", msg |-> Overflow]
    ELSE IF checked_sub_i64(as_i64(a), as_i64(b)) = None
         THEN [kind |-> "Panic", msg |-> UnwrapNone]
         ELSE Ok(Unwrap(checked_sub_i64(as_i64(a), as_i64(b))))

\* a slip: the assertion left out, so that zip stops at the shorter list
assert_len_missing(self, rhs) == TRUE

\* proc.rs 34: assert_eq!(self.cpus.len(), rhs.cpus.len(), ...)
assert_len(self, rhs) == Len(self.cpus) = Len(rhs.cpus)

\* proc.rs 67: the same assertion of Stat - &Stat
assert_len_ref(self, rhs) == Len(self.cpus) = Len(rhs.cpus)

\* iter_mut().zip(..).for_each(|(this, rhs)| *this = *this - rhs): the pairs are
\* taken in index order up to the shorter length and the first failing pair
\* panics
zip_for_each(self_cpus, rhs_cpus) ==
    LET n    == Min(Len(self_cpus), Len(rhs_cpus))
        bad  == {i \in 1..n : StatCpu_sub(self_cpus[i], rhs_cpus[i]) = None}
        stop == IF bad = {} THEN n ELSE CHOOSE i \in bad : \A j \in bad : i <= j
    IN  [failed |-> bad # {},
         count  |-> stop,
         cpus   |-> [i \in 1..Len(self_cpus) |->
                       IF i <= n /\ (bad = {} \/ i < stop)
                       THEN Unwrap(StatCpu_sub(self_cpus[i], rhs_cpus[i]))
                       ELSE self_cpus[i]]]

\* proc.rs 35-37: zip(rhs.cpus.into_iter())
zip_sub(self, rhs) == zip_for_each(self.cpus, rhs.cpus)

\* a slip: the right-hand list walked from its end
zip_sub_ref_reversed(self, rhs) ==
    zip_for_each(self.cpus, [i \in 1..Len(rhs.cpus) |-> rhs.cpus[Len(rhs.cpus) + 1 - i]])

\* proc.rs 68-70: zip(rhs.cpus.iter())
zip_sub_ref(self, rhs) == zip_for_each(self.cpus, rhs.cpus)

\* impl ops::Sub for Stat (proc.rs 33-60)
Stat_sub(self, rhs) ==
    IF ~assert_len(self, rhs) THEN Panic(DifferentCpus, 0)
    ELSE
    LET z == zip_sub(self, rhs)
        n == z.count
        cpu_totals == StatCpu_sub(self.cpu_totals, rhs.cpu_totals)
        context_switches == checked_sub(self.context_switches, rhs.context_switches)
        processes == checked_sub(self.processes, rhs.processes)
        procs_running == gauge_sub(self.procs_running, rhs.procs_running)
        procs_blocked == gauge_sub(self.procs_blocked, rhs.procs_blocked)
    IN  IF z.failed THEN Panic(UnwrapNone, n)
        ELSE IF cpu_totals = None THEN Panic(UnwrapNone, n)
        ELSE IF context_switches = None THEN Panic(UnwrapNone, n)
        ELSE IF processes = None THEN Panic(UnwrapNone, n)
        ELSE IF procs_running.kind = "Panic" THEN Panic(procs_running.msg, n)
        ELSE IF procs_blocked.kind = "Panic" THEN Panic(procs_blocked.msg, n)
        ELSE [kind |-> "Ok", cpu_subs |-> n,
              val |-> [cpu_totals |-> Unwrap(cpu_totals),
                       cpus |-> z.cpus,
                       context_switches |-> Unwrap(context_switches),
                       processes |-> Unwrap(processes),
                       procs_running |-> procs_running.val,
                       procs_blocked |-> procs_blocked.val]]

\* impl ops::Sub<&Stat> for Stat (proc.rs 66-93)
Stat_sub_ref(self, rhs) ==
    IF ~assert_len_ref(self, rhs) THEN Panic(DifferentCpus, 0)
    ELSE
    LET z == zip_sub_ref(self, rhs)
        n == z.count
        cpu_totals == StatCpu_sub(self.cpu_totals, rhs.cpu_totals)
        context_switches == checked_sub(self.context_switches, rhs.context_switches)
        processes == checked_sub(self.processes, rhs.processes)
        procs_running == gauge_sub_ref(self.procs_running, rhs.procs_running)
        procs_blocked == gauge_sub_ref(self.procs_blocked, rhs.procs_blocked)
    IN  IF z.failed THEN Panic(UnwrapNone, n)
        ELSE IF cpu_totals = None THEN Panic(UnwrapNone, n)
        ELSE IF context_switches = None THEN Panic(UnwrapNone, n)
        ELSE IF processes = None THEN Panic(UnwrapNone, n)
        ELSE IF procs_running.kind = "Panic" THEN Panic(procs_running.msg, n)
        ELSE IF procs_blocked.kind = "Panic" THEN Panic(procs_blocked.msg, n)
        ELSE [kind |-> "Ok", cpu_subs |-> n,
              val |-> [cpu_totals |-> Unwrap(cpu_totals),
                       cpus |-> z.cpus,
                       context_switches |-> Unwrap(context_switches),
                       processes |-> Unwrap(processes),
                       procs_running |-> procs_running.val,
                       procs_blocked |-> procs_blocked.val]]

----------------------------------------------------------------------------
(* The Stats the differencing is applied to *)

Uniform(v) == [f \in FieldSet |-> v]
Bump(f) == [Uniform(1) EXCEPT ![f] = 2]

\* StatCpu values: all counters equal, or one counter ahead of the others
CpuSet == {Uniform(1), Uniform(2)} \cup {Bump(f) : f \in FieldSet}

CounterVals == {0, 1}
GaugeVals == {0, 1, I64Max, I64Max + 1}

Stat(cpu_totals, cpus, context_switches, boot_time, processes, procs_running, procs_blocked) ==
    [cpu_totals |-> cpu_totals, cpus |-> cpus, context_switches |-> context_switches,
     boot_time |-> boot_time, processes |-> processes,
     procs_running |-> procs_running, procs_blocked |-> procs_blocked]

\* n cores, all Uniform(1) except core k which is c
CoresWith(n, k, c) == [i \in 1..n |-> IF i = k THEN c ELSE Uniform(1)]

StatSet ==
    \* the number of cores varies
    {Stat(Uniform(1), CoresWith(n, 0, Uniform(1)), 1, 1, 1, 1, 1) : n \in 0..MaxCores}
    \cup
    \* the aggregate varies
    {Stat(t, CoresWith(1, 0, t), 1, 1, 1, 1, 1) : t \in CpuSet}
    \cup
    \* one core varies
    UNION {{Stat(Uniform(1), CoresWith(n, k, c), 1, 1, 1, 1, 1) : k \in 1..n, c \in CpuSet}
           : n \in 1..MaxCores}
    \cup
    \* the system-wide counters vary
    {Stat(Uniform(1), CoresWith(1, 0, Uniform(1)), cs, 1, p, 1, 1) :
        cs \in CounterVals, p \in CounterVals}
    \cup
    \* the gauges vary
    {Stat(Uniform(1), CoresWith(1, 0, Uniform(1)), 1, 1, 1, r, b) :
        r \in GaugeVals, b \in GaugeVals}

NoSub == [kind |-> "None"]

SubIdleU64   == input = <<>> /\ u64_out = None
SubIdleParse == table = <<>> /\ pos = 0 /\ pc = "idle" /\ st = <<>> /\ result = None
SubIdleInst  == clock = 0 /\ start = None /\ end_ = None /\ duration = None

InitSub ==
    /\ overflow_checks \in BOOLEAN
    /\ newer \in {Some(s) : s \in StatSet}
    /\ older \in {Some(s) : s \in StatSet}
    /\ form = "none"
    /\ sub_in = None
    /\ sub_out = NoSub
    /\ SubIdleU64 /\ SubIdleParse /\ SubIdleInst

\* newer - older: both operands are moved into the call
SubByValue ==
    /\ newer # None /\ older # None
    /\ sub_out' = Stat_sub(Unwrap(newer), Unwrap(older))
    /\ sub_in' = Some([newer |-> Unwrap(newer), older |-> Unwrap(older)])
    /\ form' = "val"
    /\ newer' = None
    /\ older' = None
    /\ UNCHANGED <<overflow_checks, u64Vars, parseVars, instVars>>

\* newer - &older: only the left operand is moved, the right one is borrowed
SubByRef ==
    /\ newer # None /\ older # None
    /\ sub_out' = Stat_sub_ref(Unwrap(newer), Unwrap(older))
    /\ sub_in' = Some([newer |-> Unwrap(newer), older |-> Unwrap(older)])
    /\ form' = "ref"
    /\ newer' = None
    /\ older' = older
    /\ UNCHANGED <<overflow_checks, u64Vars, parseVars, instVars>>

\* Stat::from_system: the caller takes a fresh sample as the new left operand
\* and keeps the borrowed right operand as the baseline
Sample ==
    /\ newer = None /\ older # None
    /\ newer' \in {Some(x) : x \in StatSet}
    /\ older' = older
    /\ form' = "none" /\ sub_in' = None /\ sub_out' = NoSub
    /\ UNCHANGED <<overflow_checks, u64Vars, parseVars, instVars>>

NextSub == SubByValue \/ SubByRef \/ Sample

SpecSub == InitSub /\ [][NextSub]_vars

----------------------------------------------------------------------------
(* Properties of the differencing *)

Subtracted == sub_out.kind # "None"
N == Unwrap(sub_in).newer
O == Unwrap(sub_in).older
SameLen == Len(N.cpus) = Len(O.cpus)

\* no cumulative counter of the newer sample is below the older one
NonDecreasing ==
    /\ \A f \in FieldSet : N.cpu_totals[f] >= O.cpu_totals[f]
    /\ \A i \in 1..Min(Len(N.cpus), Len(O.cpus)) :
          \A f \in FieldSet : N.cpus[i][f] >= O.cpus[i][f]
    /\ N.context_switches >= O.context_switches
    /\ N.processes >= O.processes

GaugesFitI64 ==
    /\ N.procs_running <= I64Max /\ O.procs_running <= I64Max
    /\ N.procs_blocked <= I64Max /\ O.procs_blocked <= I64Max

\* every cumulative field of the Delta is newer - older, position by position
CountersAreDifferences ==
    LET d == sub_out.val IN
    /\ \A f \in FieldSet : d.cpu_totals[f] = N.cpu_totals[f] - O.cpu_totals[f]
    /\ Len(d.cpus) = Len(N.cpus)
    /\ \A i \in 1..Len(d.cpus) : \A f \in FieldSet : d.cpus[i][f] = N.cpus[i][f] - O.cpus[i][f]
    /\ d.context_switches = N.context_switches - O.context_switches
    /\ d.processes = N.processes - O.processes

GaugesAreDifferences ==
    /\ sub_out.val.procs_running = N.procs_running - O.procs_running
    /\ sub_out.val.procs_blocked = N.procs_blocked - O.procs_blocked

\* C1: a subtraction (either form) of two Stats whose cpus have different
\* lengths panics on the length assertion, before any per-core subtraction,
\* and produces no Delta
C1_LengthMismatchFails ==
    (Subtracted /\ ~SameLen) => sub_out = Panic(DifferentCpus, 0)

C1_Witness ==
    /\ form = "ref" /\ Len(N.cpus) = 2 /\ Len(O.cpus) = 1
    /\ sub_out.kind = "Panic"

\* C2 as stated: with equal lengths the subtraction succeeds exactly when no
\* cumulative counter decreased, and then every counter is newer - older
C2_Original ==
    (Subtracted /\ SameLen) =>
        /\ sub_out.kind = "Ok" <=> NonDecreasing
        /\ sub_out.kind = "Ok" => CountersAreDifferences

\* C2 amended: with equal lengths the subtraction succeeds exactly when no
\* cumulative counter decreased and the four gauge values are at most
\* i64::MAX; on success every counter of the Delta is newer - older at the
\* same index; otherwise it panics and there is no Delta
C2_SucceedsIffMonotoneAndGaugesFit ==
    (Subtracted /\ SameLen) =>
        /\ sub_out.kind = "Ok" <=> (NonDecreasing /\ GaugesFitI64)
        /\ sub_out.kind = "Ok" => CountersAreDifferences
        /\ sub_out.kind # "Ok" => sub_out.kind = "Panic" /\ "val" \notin DOMAIN sub_out

C2_Witness ==
    /\ Subtracted /\ sub_out.kind = "Ok"
    /\ Len(N.cpus) = 2
    /\ sub_out.val.cpus[2].idle = 1 /\ sub_out.val.cpus[1].idle = 0
    /\ sub_out.val.cpu_totals.idle = 0

\* C3 as stated: with equal lengths and non-decreasing counters the
\* subtraction succeeds for every u64 value of the gauges
C3_Original ==
    (Subtracted /\ SameLen /\ NonDecreasing) =>
        sub_out.kind = "Ok" /\ GaugesAreDifferences

\* C3 amended: with equal lengths and non-decreasing counters, the
\* subtraction succeeds when the four gauge values are at most i64::MAX and
\* then the gauges of the Delta are the signed differences, possibly
\* negative; when a gauge value exceeds i64::MAX it panics with "overflow"
C3_GaugesSignedWithinI64 ==
    (Subtracted /\ SameLen /\ NonDecreasing) =>
        /\ GaugesFitI64 => sub_out.kind = "Ok" /\ GaugesAreDifferences
        /\ ~GaugesFitI64 => sub_out.kind = "Panic" /\ sub_out.msg = Overflow

C3_Witness ==
    /\ Subtracted /\ sub_out.kind = "Ok"
    /\ sub_out.val.procs_running = -I64Max
    /\ sub_out.val.procs_blocked = I64Max - 1

\* C8: the by-reference and the by-value subtraction agree on every pair of
\* operands (same panic or same Delta), and the by-reference form leaves
\* the older sample in place, unchanged
C8_RefEquivalentToValue ==
    /\ form = "ref" => /\ sub_out = Stat_sub(N, O)
                       /\ older = Some(O)
    /\ form = "val" => sub_out = Stat_sub_ref(N, O)

C8_Witness ==
    /\ form = "ref" /\ sub_out.kind = "Ok" /\ older # None
    /\ Len(N.cpus) = 2 /\ sub_out.val.cpus[2].guest = 1
----------------------------------------------------------------------------
(* The numeric tokenizer parse_u64 (proc.rs 253-271).  A &str is a sequence  *)
(* of characters; "eacute" stands for a character that takes two bytes.    *)

Digits == <<"0", "1", "2", "3", "4", "5", "6", "7", "8", "9">>
DigitChars == {Digits[i] : i \in 1..10}

\* char::to_digit(10)
to_digit(c) == IF c \in DigitChars THEN Some((CHOOSE i \in 1..10 : Digits[i] = c) - 1) ELSE None

\* input.get(0..1).and_then(|s| s.chars().next()): the first character, when
\* the input is not empty and byte 1 is a character boundary
get_first(inp) ==
    IF inp = <<>> THEN None
    ELSE IF inp[1] = "eacute" THEN None
    ELSE Some(inp[1])

\* .and_then(|d| d.to_digit(10)).map(|d| d as u64)
first_digit(inp) == IF get_first(inp) = None THEN None ELSE to_digit(Unwrap(get_first(inp)))

ArithPanic(msg) == [kind |-> "Panic", msg |-> msg]
MulOverflow == "attempt to multiply with overflow"
AddOverflow == "attempt to add with overflow"

\* proc.rs 266: num = num * 10 + d, in a u64; with overflow checks the
\* operation panics, without them it wraps
accumulate(num, d) ==
    IF num * 10 > U64Max
    THEN IF overflow_checks THEN ArithPanic(MulOverflow) ELSE Ok((num * 10 + d) % Modulus)
    ELSE IF num * 10 + d > U64Max
    THEN IF overflow_checks THEN ArithPanic(AddOverflow) ELSE Ok((num * 10 + d) % Modulus)
    ELSE Ok(num * 10 + d)

\* proc.rs 259-269: the loop; inp still starts with the digit just consumed
RECURSIVE parse_u64_loop(_, _)
parse_u64_loop(inp, num) ==
    LET rest == Tail(inp)
        d    == first_digit(rest)
    IN  IF d = None THEN [kind |-> "Ok", rest |-> rest, val |-> num]
        ELSE IF accumulate(num, Unwrap(d)).kind = "Panic" THEN accumulate(num, Unwrap(d))
        ELSE parse_u64_loop(rest, accumulate(num, Unwrap(d)).val)

ParseErr == [kind |-> "Err"]

\* fn parse_u64 (proc.rs 253-271)
parse_u64(inp) ==
    IF first_digit(inp) = None THEN ParseErr
    ELSE parse_u64_loop(inp, Unwrap(first_digit(inp)))

Alphabet == {"0", "1", "9", " ", "a", "eacute"}

RECURSIVE StrsOfLen(_)
StrsOfLen(n) ==
    IF n = 0 THEN {<<>>}
    ELSE {<<c>> \o t : c \in Alphabet, t \in StrsOfLen(n - 1)}

Strs == UNION {StrsOfLen(n) : n \in 0..MaxLen}

U64IdleSub == newer = None /\ older = None /\ form = "none" /\ sub_in = None /\ sub_out = NoSub

InitU64 ==
    /\ overflow_checks \in BOOLEAN
    /\ input \in Strs
    /\ u64_out = None
    /\ U64IdleSub /\ SubIdleParse /\ SubIdleInst

\* a call of parse_u64 on the input
CallParseU64 ==
    /\ u64_out = None
    /\ u64_out' = Some(parse_u64(input))
    /\ UNCHANGED <<overflow_checks, input, subVars, parseVars, instVars>>

NextU64 == CallParseU64

SpecU64 == InitU64 /\ [][NextU64]_vars

\* the leading run of ASCII digits of a string, and what follows it
RECURSIVE DigitRun(_)
DigitRun(s) ==
    IF s = <<>> \/ s[1] \notin DigitChars THEN <<>>
    ELSE <<s[1]>> \o DigitRun(Tail(s))

AfterRun(s) == SubSeq(s, Len(DigitRun(s)) + 1, Len(s))

Pow10(n) == 10^n

\* the number a digit run denotes in decimal notation
RECURSIVE DecimalValue(_)
DecimalValue(run) ==
    IF run = <<>> THEN 0
    ELSE Unwrap(to_digit(run[1])) * Pow10(Len(run) - 1) + DecimalValue(Tail(run))

\* C7: an input that starts with a digit yields the decimal value of its
\* whole leading digit run and the remainder after the run; any other
\* input, the empty one included, is an error
C7_Original ==
    u64_out # None =>
        IF DigitRun(input) # <<>>
        THEN Unwrap(u64_out) = [kind |-> "Ok", rest |-> AfterRun(input),
                                val |-> DecimalValue(DigitRun(input))]
        ELSE Unwrap(u64_out) = ParseErr

\* what the code does: the value is the decimal value when it fits the
\* word; a longer run panics with overflow checks and wraps without them
C7_ValueWhenItFits ==
    u64_out # None =>
        IF DigitRun(input) = <<>> THEN Unwrap(u64_out) = ParseErr
        ELSE IF DecimalValue(DigitRun(input)) <= U64Max
        THEN Unwrap(u64_out) = [kind |-> "Ok", rest |-> AfterRun(input),
                                val |-> DecimalValue(DigitRun(input))]
        ELSE IF overflow_checks THEN Unwrap(u64_out).kind = "Panic"
        ELSE Unwrap(u64_out) = [kind |-> "Ok", rest |-> AfterRun(input),
                                val |-> DecimalValue(DigitRun(input)) % Modulus]
----------------------------------------------------------------------------
(* The parser combinators used on a line (nom, streaming &str input): a     *)
(* combinator that reaches the end of the input without finding the end of *)
(* its match reports Incomplete, which fails the enclosing parser.         *)

Fail == [kind |-> "Err"]
Rest(r) == [kind |-> "Ok", rest |-> r]

\* tag!(t)
tag(t, inp) ==
    IF Len(inp) >= Len(t) /\ SubSeq(inp, 1, Len(t)) = t
    THEN Rest(SubSeq(inp, Len(t) + 1, Len(inp)))
    ELSE Fail

RECURSIVE skip_while(_, _)
skip_while(inp, chars) ==
    IF inp = <<>> THEN Fail
    ELSE IF inp[1] \in chars THEN skip_while(Tail(inp), chars)
    ELSE Rest(inp)

\* nom::digit0: zero or more ASCII digits
digit0(inp) == skip_while(inp, DigitChars)

\* nom::space0: zero or more spaces or tabs
space0(inp) == skip_while(inp, {" ", "\t"})

\* call!(nom::space0) >> x: call!(parse_u64), k times; acc collects the values
RECURSIVE fields_from(_, _, _)
fields_from(inp, k, acc) ==
    IF k = 0 THEN Ok(acc)
    ELSE LET sp == space0(inp) IN
         IF sp.kind # "Ok" THEN Fail
         ELSE LET num == parse_u64(sp.rest) IN
              IF num.kind # "Ok" THEN num
              ELSE fields_from(num.rest, k - 1, Append(acc, num.val))

\* a slip: idle and iowait bound in the wrong order
cpu_record_swapped(v) == StatCpu(v[1], v[2], v[3], v[5], v[4], v[6], v[7], v[8], v[9])

\* the record built at proc.rs 236 from the nine values in parse order
cpu_record(v) == StatCpu(v[1], v[2], v[3], v[4], v[5], v[6], v[7], v[8], v[9])

\* named!(parse_cpu_line ...) (proc.rs 215-237)
parse_cpu_line(inp) ==
    LET t == tag(<<"c", "p", "u">>, inp) IN
    IF t.kind # "Ok" THEN Fail
    ELSE LET d == digit0(t.rest) IN
         IF d.kind # "Ok" THEN Fail
         ELSE LET f == fields_from(d.rest, 9, <<>>) IN
              IF f.kind # "Ok" THEN f ELSE Ok(cpu_record(f.val))

\* a slip: a line that runs out of fields is accepted, the rest read as 0
StatCpu_from_str_lenient(inp) ==
    LET t == tag(<<"c", "p", "u">>, inp) IN
    IF t.kind # "Ok" THEN Fail
    ELSE IF parse_cpu_line(inp).kind = "Err" /\ fields_from(t.rest, 1, <<>>).kind = "Ok"
         THEN Ok(Uniform(0))
         ELSE parse_cpu_line(inp)

\* StatCpu::from_str (proc.rs 197-199): Err stands for None
StatCpu_from_str(inp) == parse_cpu_line(inp)

\* fn parse_single (proc.rs 240-248): Err stands for None
parse_single(name, inp) ==
    LET t == tag(name, inp) IN
    IF t.kind # "Ok" THEN Fail
    ELSE LET sp == tag(<<" ">>, t.rest) IN
         IF sp.kind # "Ok" THEN Fail
         ELSE LET num == parse_u64(sp.rest) IN
              IF num.kind # "Ok" THEN num ELSE Ok(num.val)

----------------------------------------------------------------------------
(* Stat::from_iter (proc.rs 100-129), one step per statement *)

Line(text) == [kind |-> "line", text |-> text]
IoErr(e) == [kind |-> "err", err |-> e]
Err(e) == [kind |-> "Err", err |-> e]
InvalidData == "InvalidData"

\* iter.next()
iter_next == IF pos < Len(table) THEN Some(table[pos + 1]) ELSE None

\* the closures handed to parse_line: |s| StatCpu::from_str(&s) (proc.rs 101)
\* and |s| parse_single(name, s) (proc.rs 114-118)
FromStr == [fn |-> "StatCpu::from_str"]
Single(name) == [fn |-> "parse_single", name |-> name]

apply(mapper, text) ==
    IF mapper.fn = "parse_single" THEN parse_single(mapper.name, text)
    ELSE StatCpu_from_str(text)

\* fn parse_line (proc.rs 151-159): the next item, flattened, then mapped
parse_line(mapper) ==
    IF iter_next = None THEN Err(InvalidData)
    ELSE LET item == Unwrap(iter_next) IN
         IF item.kind = "err" THEN Err(item.err)
         ELSE LET m == apply(mapper, item.text) IN
              IF m.kind = "Err" THEN Err(InvalidData) ELSE m

W_ctxt == <<"c", "t", "x", "t">>
W_btime == <<"b", "t", "i", "m", "e">>
W_processes == <<"p", "r", "o", "c", "e", "s", "s", "e", "s">>
W_procs_running == <<"p", "r", "o", "c", "s", "_", "r", "u", "n", "n", "i", "n", "g">>
W_procs_blocked == <<"p", "r", "o", "c", "s", "_", "b", "l", "o", "c", "k", "e", "d">>

\* a slip: the ctxt line looked for, the lines before it skipped
RECURSIVE find_ctxt_from(_)
find_ctxt_from(p) ==
    IF p >= Len(table) THEN [at |-> p, out |-> Err(InvalidData)]
    ELSE IF table[p + 1].kind = "err" THEN [at |-> p + 1, out |-> Err(table[p + 1].err)]
    ELSE IF parse_single(W_ctxt, table[p + 1].text).kind = "Err" THEN find_ctxt_from(p + 1)
    ELSE [at |-> p + 1, out |-> parse_single(W_ctxt, table[p + 1].text)]

find_ctxt == find_ctxt_from(pos)

\* proc.rs 114: the ctxt line is the next line; at is the iterator position after it
read_ctxt ==
    [at |-> Min(pos + 1, Len(table)),
     out |-> parse_line(Single(W_ctxt))]

NoStat == [cpu_totals |-> None, cpus |-> <<>>, next_line |-> None,
           context_switches |-> None, boot_time |-> None, processes |-> None,
           procs_running |-> None, procs_blocked |-> None]

\* the ? operator: an error or a panic ends from_iter
Finish(out) == result' = Some(out) /\ pc' = "done" /\ st' = st

\* proc.rs 101
ReadCpuTotals ==
    /\ pc = "cpu_totals"
    /\ LET r == parse_line(FromStr) IN
       /\ pos' = Min(pos + 1, Len(table))
       /\ IF r.kind = "Ok"
          THEN st' = [st EXCEPT !.cpu_totals = r.val] /\ pc' = "loop" /\ result' = result
          ELSE Finish(r)
    /\ UNCHANGED <<overflow_checks, table, subVars, u64Vars, instVars>>

\* proc.rs 104-111: one turn of the loop
LoopNext ==
    /\ pc = "loop"
    /\ pos' = Min(pos + 1, Len(table))
    /\ IF iter_next = None THEN Finish(Err(InvalidData))
       ELSE LET item == Unwrap(iter_next) IN
            IF item.kind = "err" THEN Finish(Err(item.err))
            ELSE LET c == StatCpu_from_str(item.text) IN
                 IF c.kind = "Panic" THEN Finish(c)
                 ELSE IF c.kind = "Ok"
                 THEN /\ st' = [st EXCEPT !.cpus = Append(@, c.val), !.next_line = item.text]
                      /\ pc' = "loop" /\ result' = result
                 ELSE /\ st' = [st EXCEPT !.next_line = item.text]
                      /\ pc' = "ctxt" /\ result' = result
    /\ UNCHANGED <<overflow_checks, table, subVars, u64Vars, instVars>>

\* proc.rs 114
ReadCtxt ==
    /\ pc = "ctxt"
    /\ pos' = read_ctxt.at
    /\ IF read_ctxt.out.kind = "Ok"
       THEN st' = [st EXCEPT !.context_switches = read_ctxt.out.val]
            /\ pc' = "btime" /\ result' = result
       ELSE Finish(read_ctxt.out)
    /\ UNCHANGED <<overflow_checks, table, subVars, u64Vars, instVars>>

\* proc.rs 115
ReadBtime ==
    /\ pc = "btime"
    /\ LET r == parse_line(Single(W_btime)) IN
       /\ pos' = Min(pos + 1, Len(table))
       /\ IF r.kind = "Ok"
          THEN st' = [st EXCEPT !.boot_time = r.val] /\ pc' = "processes" /\ result' = result
          ELSE Finish(r)
    /\ UNCHANGED <<overflow_checks, table, subVars, u64Vars, instVars>>

\* proc.rs 116
ReadProcesses ==
    /\ pc = "processes"
    /\ LET r == parse_line(Single(W_processes)) IN
       /\ pos' = Min(pos + 1, Len(table))
       /\ IF r.kind = "Ok"
          THEN st' = [st EXCEPT !.processes = r.val] /\ pc' = "procs_running" /\ result' = result
          ELSE Finish(r)
    /\ UNCHANGED <<overflow_checks, table, subVars, u64Vars, instVars>>

\* proc.rs 117
ReadProcsRunning ==
    /\ pc = "procs_running"
    /\ LET r == parse_line(Single(W_procs_running)) IN
       /\ pos' = Min(pos + 1, Len(table))
       /\ IF r.kind = "Ok"
          THEN st' = [st EXCEPT !.procs_running = r.val] /\ pc' = "procs_blocked" /\ result' = result
          ELSE Finish(r)
    /\ UNCHANGED <<overflow_checks, table, subVars, u64Vars, instVars>>

\* proc.rs 118
ReadProcsBlocked ==
    /\ pc = "procs_blocked"
    /\ LET r == parse_line(Single(W_procs_blocked)) IN
       /\ pos' = Min(pos + 1, Len(table))
       /\ IF r.kind = "Ok"
          THEN st' = [st EXCEPT !.procs_blocked = r.val] /\ pc' = "return" /\ result' = result
          ELSE Finish(r)
    /\ UNCHANGED <<overflow_checks, table, subVars, u64Vars, instVars>>

\* proc.rs 120-128
ReturnStat ==
    /\ pc = "return"
    /\ result' = Some(Ok(Stat(st.cpu_totals, st.cpus, st.context_switches, st.boot_time,
                              st.processes, st.procs_running, st.procs_blocked)))
    /\ pc' = "done"
    /\ UNCHANGED <<overflow_checks, table, pos, st, subVars, u64Vars, instVars>>

NextParse ==
    \/ ReadCpuTotals \/ LoopNext \/ ReadCtxt \/ ReadBtime \/ ReadProcesses
    \/ ReadProcsRunning \/ ReadProcsBlocked \/ ReturnStat

----------------------------------------------------------------------------
(* The tables handed to from_iter *)

Sp == <<" ">>

\* the decimal notation of n
RECURSIVE Dec(_)
Dec(n) == IF n < 10 THEN <<Digits[n + 1]>> ELSE Dec(n \div 10) \o <<Digits[(n % 10) + 1]>>

RECURSIVE NumList(_)
NumList(nums) == IF nums = <<>> THEN <<>> ELSE Sp \o Dec(nums[1]) \o NumList(Tail(nums))

\* "cpu<id> n1 n2 ..."
CpuText(id, nums) == <<"c", "p", "u">> \o id \o NumList(nums)
KeyText(key, n) == key \o Sp \o Dec(n)

\* a number that does not fit the scaled word
TooBig == 3 * U64Max + 6

\* the aggregate line as the kernel writes it: two spaces, ten numbers
AggLine == Line(<<"c", "p", "u">> \o Sp \o NumList(<<1, 2, 3, 4, 5, 6, 7, 8, 9, 0>>))
CoreLine(k) == Line(CpuText(Dec(k - 1), [i \in 1..10 |-> IF i = 10 THEN 0 ELSE i + k]))
IntrLine == Line(<<"i", "n", "t", "r">> \o NumList(<<5, 0, 6>>))
SoftirqLine == Line(<<"s", "o", "f", "t", "i", "r", "q">> \o NumList(<<7, 8>>))

KeyWords == <<W_ctxt, W_btime, W_processes, W_procs_running, W_procs_blocked>>
KeyValues == <<21, 22, 23, 1, 0>>
KeyedLine(j) == Line(KeyText(KeyWords[j], KeyValues[j]))
KeyedLines == [j \in 1..5 |-> KeyedLine(j)]

Cores(n) == [k \in 1..n |-> CoreLine(k)]

\* the layout of /proc/stat: aggregate, cores, intr, the five keyed lines, softirq
Canon(n) == <<AggLine>> \o Cores(n) \o <<IntrLine>> \o KeyedLines \o <<SoftirqLine>>

\* the items a table is perturbed with
OtherItems ==
    { Line(CpuText(<<>>, <<3, 4, 5, 6, 7, 8, 9, 10, 11>>)),       \* cpu, no digits
      Line(CpuText(<<"7">>, <<3, 4, 5, 6, 7, 8, 9, 10, 11>>)),    \* cpu7
      Line(CpuText(<<"7">>, <<3, 4, 5, 6, 7, 8, 9, 10>>)),        \* eight fields
      Line(CpuText(<<>>, <<3, 4>>)),                              \* two fields
      Line(CpuText(<<>>, <<TooBig, 4, 5, 6, 7, 8, 9, 10, 11>>)),  \* a field too big
      Line(CpuText(<<>>, <<TooBig, 4>>)),                         \* too big and too short
      IntrLine,
      Line(<<>>),
      Line(KeyText(W_ctxt, 5)),
      Line(W_ctxt \o Sp \o <<"x">>),
      Line(W_ctxt \o Sp \o <<"5", "x">>),
      Line(W_ctxt),
      Line(KeyText(W_ctxt, TooBig)),
      Line(KeyText(W_procs_blocked, TooBig)),
      Line(KeyText(W_btime, 4)),
      IoErr("Interrupted") }

Replace(t, i, x) == [t EXCEPT ![i] = x]
Delete(t, i) == SubSeq(t, 1, i - 1) \o SubSeq(t, i + 1, Len(t))
Insert(t, i, x) == SubSeq(t, 1, i - 1) \o <<x>> \o SubSeq(t, i, Len(t))

Edits(t) ==
    {t}
    \cup {Delete(t, i) : i \in 1..Len(t)}
    \cup {Replace(t, i, x) : i \in 1..Len(t), x \in OtherItems}
    \cup {Insert(t, i, x) : i \in 1..(Len(t) + 1), x \in OtherItems}

MaxGap == 2       \* most unrelated lines put before or after the keyed lines

Repeat(x, k) == [i \in 1..k |-> x]

\* a well-formed table with kb unrelated lines before the keyed lines, one
\* more after keyed line g (none when g = 0) and ka after the last one
Layout(n, kb, g, ka) ==
    <<AggLine>> \o Cores(n) \o Repeat(IntrLine, kb)
    \o SubSeq(KeyedLines, 1, g) \o (IF g = 0 THEN <<>> ELSE <<IntrLine>>)
    \o SubSeq(KeyedLines, g + 1, 5) \o Repeat(SoftirqLine, ka)

Layouts == {Layout(n, kb, g, ka) : n \in 0..MaxCores, kb \in 0..MaxGap, g \in 0..4, ka \in 0..MaxGap}

Tables == UNION {Edits(Canon(n)) : n \in 0..MaxCores} \cup Layouts

ParseIdleU64 == input = <<>> /\ u64_out = None

InitParse ==
    /\ overflow_checks \in BOOLEAN
    /\ table \in Tables
    /\ pos = 0
    /\ pc = "cpu_totals"
    /\ st = NoStat
    /\ result = None
    /\ U64IdleSub /\ ParseIdleU64 /\ SubIdleInst

SpecParse == InitParse /\ [][NextParse]_vars

Done == pc = "done"
Parsed == Done /\ Unwrap(result).kind = "Ok"
ParsedStat == Unwrap(result).val
NCores == Len(ParsedStat.cpus)


----------------------------------------------------------------------------
(* Properties of the parser.  A line is read here by splitting it at       *)
(* blanks, independently of the combinators above.                         *)

Blank == {" ", "\t"}

RECURSIVE Word(_)
Word(s) == IF s = <<>> \/ s[1] \in Blank THEN <<>> ELSE <<s[1]>> \o Word(Tail(s))

\* the blank-separated words of a text
RECURSIVE Tokens(_)
Tokens(s) ==
    IF s = <<>> THEN <<>>
    ELSE IF s[1] \in Blank THEN Tokens(Tail(s))
    ELSE <<Word(s)>> \o Tokens(SubSeq(s, Len(Word(s)) + 1, Len(s)))

AllDigits(w) == w # <<>> /\ DigitRun(w) = w
IsLine(i) == i \in 1..Len(table) /\ table[i].kind = "line"

\* the text is `cpu`, then digits or nothing, then at least nine numbers
CpuShaped(text) ==
    LET w == Tokens(text) IN
    /\ Len(w) >= 10
    /\ text[1] = "c"
    /\ Len(w[1]) >= 3 /\ SubSeq(w[1], 1, 3) = <<"c", "p", "u">>
    /\ DigitRun(SubSeq(w[1], 4, Len(w[1]))) = SubSeq(w[1], 4, Len(w[1]))
    /\ \A i \in 2..9 : AllDigits(w[i])
    /\ DigitRun(w[10]) # <<>>

\* the text starts with `cpu` and a digit
HasIdDigits(text) ==
    Len(text) >= 4 /\ SubSeq(text, 1, 3) = <<"c", "p", "u">> /\ text[4] \in DigitChars

\* the i-th number of a cpu line, as a u64
NumberAt(text, i) == DecimalValue(DigitRun(Tokens(text)[i + 1])) % Modulus

\* the text is the key, one space, and a number
KeyShaped(text, key) ==
    /\ Len(text) >= Len(key) + 2
    /\ SubSeq(text, 1, Len(key) + 1) = key \o Sp
    /\ text[Len(key) + 2] \in DigitChars

KeyNumber(text, key) ==
    DecimalValue(DigitRun(SubSeq(text, Len(key) + 2, Len(text)))) % Modulus

KeyedOf(stat) == <<stat.context_switches, stat.boot_time, stat.processes,
                   stat.procs_running, stat.procs_blocked>>

\* the last item taken from the iterator was an I/O error
IoErrRead == pos >= 1 /\ table[pos].kind = "err"

WellFormedTables == {Layout(n, 1, 0, ka) : n \in 0..MaxCores, ka \in 0..MaxGap}

\* C4: from_iter returns a complete Stat or an error, never anything else;
\* it succeeds on the well-formed tables; an I/O error taken from the
\* iterator is returned as it is, every other failure is InvalidData; a
\* short aggregate line, an input that ends early and a missing or
\* non-numeric keyed line are failures
C4_Original ==
    Done =>
        /\ Unwrap(result).kind \in {"Ok", "Err"}
        /\ table \in WellFormedTables => Unwrap(result).kind = "Ok"
        /\ IoErrRead => Unwrap(result) = Err(table[pos].err)
        /\ (~IoErrRead /\ Unwrap(result).kind # "Ok") => Unwrap(result) = Err(InvalidData)
        /\ Unwrap(result).kind = "Ok" =>
              /\ CpuShaped(table[1].text)
              /\ pos = NCores + 7 /\ pos <= Len(table)
              /\ \A j \in 1..5 : \E i \in 1..Len(table) :
                    IsLine(i) /\ KeyShaped(table[i].text, KeyWords[j])
              /\ \A j \in 1..5 : KeyedOf(ParsedStat)[j] \in 0..U64Max
              /\ ParsedStat.cpu_totals \in [FieldSet -> 0..U64Max]

\* the same statement, for the builds without overflow checks only
C4_WithoutOverflowChecks == ~overflow_checks => C4_Original

\* C5 as stated: unrelated lines before, between or after the keyed lines
\* do not matter
C5_Original ==
    (Done /\ table \in Layouts) =>
        Unwrap(result).kind = "Ok" /\ KeyedOf(ParsedStat) = KeyValues

\* C5 amended: the keyed lines are taken by position.  from_iter never reads
\* past the seventh line after the aggregate and per-core lines; a parse
\* succeeds only if the five lines that follow the line ending the per-core
\* run are ctxt, btime, processes, procs_running, procs_blocked in this
\* order, and then stores their numbers; so unrelated lines are harmless
\* after procs_blocked only, and a well-formed table with none or two of
\* them before ctxt, or one between two keyed lines, is InvalidData
C5_KeyedLinesByPosition ==
    /\ pos <= Len(st.cpus) + 7
    /\ Parsed =>
          /\ pos = NCores + 7
          /\ \A j \in 1..5 :
                /\ IsLine(NCores + 2 + j)
                /\ KeyShaped(table[NCores + 2 + j].text, KeyWords[j])
                /\ KeyedOf(ParsedStat)[j] = KeyNumber(table[NCores + 2 + j].text, KeyWords[j])
    /\ (Done /\ table \in Layouts) =>
          IF table \in WellFormedTables
          THEN Unwrap(result).kind = "Ok" /\ KeyedOf(ParsedStat) = KeyValues
          ELSE Unwrap(result) = Err(InvalidData)

C5_Witness ==
    /\ Parsed /\ table = Layout(MaxCores, 1, 0, 2)
    /\ Len(table) = pos + 2

\* C9 as stated: a first line that is `cpu` followed by digits is never
\* accepted as the aggregate line
C9_Original ==
    (Done /\ IsLine(1) /\ HasIdDigits(table[1].text)) => Unwrap(result).kind # "Ok"

\* C9 amended: the first line is accepted as the aggregate line when it is
\* `cpu`, optionally followed by digits, followed by nine decimal integers
\* (so `cpu0 ...` is accepted); it is never rejected when it has this shape,
\* and on success the i-th number (modulo 2^64) is the i-th field of
\* cpu_totals
C9_AggregateLine ==
    /\ Parsed =>
          /\ IsLine(1) /\ CpuShaped(table[1].text)
          /\ \A i \in 1..9 : ParsedStat.cpu_totals[Fields[i]] = NumberAt(table[1].text, i)
    /\ (Done /\ st.cpu_totals = None /\ IsLine(1) /\ CpuShaped(table[1].text)) =>
          Unwrap(result).kind = "Panic"

C9_Witness ==
    /\ Parsed /\ HasIdDigits(table[1].text)
    /\ ParsedStat.cpu_totals.idle = 6 /\ ParsedStat.cpu_totals.iowait = 7

\* the per-core loop is over and nothing failed so far
AfterLoop == pc \in {"ctxt", "btime", "processes", "procs_running", "procs_blocked", "return"} \/ Parsed

\* C10 as stated: the lines taken into cpus are `cpu<digits>` lines
C10_Original ==
    AfterLoop => \A i \in 2..(Len(st.cpus) + 1) : IsLine(i) /\ HasIdDigits(table[i].text)

\* C10 amended: cpus is the maximal run of lines after the first that are
\* `cpu`, optionally followed by digits, with nine numbers, in file order
\* with the numbers (modulo 2^64) in field order; the line that ends the run
\* is taken from the iterator, kept out of cpus and not read as a keyed line
C10_PerCoreRun ==
    AfterLoop =>
        LET n == Len(st.cpus) IN
        /\ \A i \in 2..(n + 1) :
              /\ IsLine(i) /\ CpuShaped(table[i].text)
              /\ \A f \in 1..9 : st.cpus[i - 1][Fields[f]] = NumberAt(table[i].text, f)
        /\ IsLine(n + 2) /\ ~CpuShaped(table[n + 2].text)
        /\ st.next_line = table[n + 2].text
        /\ pc = "ctxt" => pos = n + 2 /\ st.context_switches = None

C10_Witness ==
    /\ Parsed /\ NCores = 2
    /\ ~HasIdDigits(table[2].text) /\ HasIdDigits(table[3].text)
    /\ ParsedStat.cpus[1].user = 3 /\ ParsedStat.cpus[2].user = 2

----------------------------------------------------------------------------
(* CpuInstant and CpuDuration (lib.rs, imp/linux.rs) and the polling loop  *)
(* of examples/cpu-monitor.rs.  An f64 is modelled by the number it holds; *)
(* its mantissa is scaled with the word: MantBits bits instead of 53.      *)

MantBits == WordBits - 1

RECURSIVE Quantum(_)
\* the spacing of the f64 values around the magnitude x
Quantum(x) == IF x < 2^MantBits THEN 1 ELSE 2 * Quantum(x \div 2)

\* round to nearest, ties to even, the magnitude x
RoundMagnitude(x) ==
    LET q  == Quantum(x)
        lo == (x \div q) * q
        r  == x - lo
    IN  IF 2 * r < q THEN lo
        ELSE IF 2 * r > q THEN lo + q
        ELSE IF (lo \div q) % 2 = 0 THEN lo ELSE lo + q

\* the f64 nearest to the number x
f64(x) == IF x >= 0 THEN RoundMagnitude(x) ELSE -RoundMagnitude(-x)

\* u64 as f64
as_f64(x) == f64(x)

\* fn get_cpu_totals (imp/linux.rs 5-10), applied to the Stat that
\* Stat::from_system returned; ans.total is ans.0, ans.idle is ans.1
get_cpu_totals(stat) ==
    IF total(stat.cpu_totals) = None THEN ArithPanic(UnwrapNone)
    ELSE Ok([total |-> as_f64(Unwrap(total(stat.cpu_totals))),
             idle  |-> f64(as_f64(stat.cpu_totals.idle) + as_f64(stat.cpu_totals.iowait))])

\* CpuInstant::now (lib.rs 25-32); from_system is the outcome of Stat::from_system
CpuInstant_now(from_system, instant) ==
    IF from_system.kind = "Err" THEN from_system
    ELSE LET t == get_cpu_totals(from_system.val) IN
         IF t.kind = "Panic" THEN t
         ELSE Ok([instant |-> instant, cpu_total |-> t.val.total, cpu_idle |-> t.val.idle])

\* impl ops::Sub for CpuInstant (lib.rs 43-49)
CpuInstant_sub(self, rhs) ==
    [duration  |-> self.instant - rhs.instant,
     cpu_total |-> f64(self.cpu_total - rhs.cpu_total),
     cpu_idle  |-> f64(self.cpu_idle - rhs.cpu_idle)]

\* the aggregate counters the kernel may report at a sample
KernelCpuSet ==
    {StatCpu(u, 0, 0, i, w, 0, 0, 0, 1) : u \in {0, 2, I64Max}, i \in {0, 1, 3}, w \in {0, 2}}
    \cup {Uniform(U64Max)}

\* what Stat::from_system may return: a Stat of the kernel's table or an I/O error
SystemStats ==
    {Ok(Stat(c, <<>>, 1, 1, 1, 1, 0)) : c \in KernelCpuSet} \cup {Err("NotFound")}

Sampled(x) == x # None /\ Unwrap(x).kind = "Ok"

InitInst ==
    /\ overflow_checks \in BOOLEAN
    /\ clock = 0 /\ start = None /\ end_ = None /\ duration = None
    /\ U64IdleSub /\ ParseIdleU64 /\ SubIdleParse

\* examples/cpu-monitor.rs 15: let mut start = CpuInstant::now()?
NowStart ==
    /\ start = None
    /\ \E sys \in SystemStats : start' = Some(CpuInstant_now(sys, clock + 1))
    /\ clock' = clock + 1
    /\ UNCHANGED <<overflow_checks, end_, duration, subVars, u64Vars, parseVars>>

\* examples/cpu-monitor.rs 17-18: sleep, then let end = CpuInstant::now()?
NowEnd ==
    /\ Sampled(start) /\ end_ = None /\ clock < MaxClock
    /\ \E sys \in SystemStats : end_' = Some(CpuInstant_now(sys, clock + 1))
    /\ clock' = clock + 1
    /\ UNCHANGED <<overflow_checks, start, duration, subVars, u64Vars, parseVars>>

\* examples/cpu-monitor.rs 19: let duration = end.clone() - start
Subtract ==
    /\ Sampled(start) /\ Sampled(end_) /\ duration = None
    /\ duration' = Some(CpuInstant_sub(Unwrap(end_).val, Unwrap(start).val))
    /\ UNCHANGED <<overflow_checks, clock, start, end_, subVars, u64Vars, parseVars>>

\* examples/cpu-monitor.rs 20-22: the usage is printed, then start = end
Rotate ==
    /\ duration # None
    /\ start' = end_ /\ end_' = None /\ duration' = None
    /\ UNCHANGED <<overflow_checks, clock, subVars, u64Vars, parseVars>>

NextInst == NowStart \/ NowEnd \/ Subtract \/ Rotate

SpecInst == InitInst /\ [][NextInst]_vars

\* C6: in every CpuDuration a subtraction returns, 0 <= cpu_idle <= cpu_total,
\* so that idle() and non_idle() are in [0,1], or NaN when cpu_total is 0
C6_Original ==
    duration # None =>
        /\ 0 <= Unwrap(duration).cpu_idle
        /\ Unwrap(duration).cpu_idle <= Unwrap(duration).cpu_total

\* what the code guarantees: the two fields are the f64 differences of the
\* two samples, whatever their order of magnitude
C6_DifferencesOnly ==
    duration # None =>
        /\ Unwrap(duration).cpu_idle = f64(Unwrap(end_).val.cpu_idle - Unwrap(start).val.cpu_idle)
        /\ Unwrap(duration).cpu_total = f64(Unwrap(end_).val.cpu_total - Unwrap(start).val.cpu_total)
        /\ Unwrap(duration).duration >= 1
====
